---- MODULE Spec2Model ----
(***************************************************************************)
(* Model of cabin's dependency-versioning and build-caching engine:        *)
(* Dataset.__init__ (formula, formula_sha, name), Dataset.produce_recursive *)
(* with the exists()/produce() of every node variant (ExternalFile,        *)
(* FTPTimestampedFile, LocalFile, S3MirrorFile, S3MirroredLocalFile,       *)
(* ImportedTable), the `system` ledger table and                           *)
(* HistoricalDataset.is_latest.                                            *)
(*                                                                         *)
(* Store semantics: MYSQL.cursor() (mysql.py:129-133) opens no transaction *)
(* and calls neither commit nor rollback, so every executed statement is   *)
(* modelled as taking effect on the shared store when it is executed.      *)
(***************************************************************************)
EXTENDS Integers, Sequences, FiniteSets, TLC

(***************************************************************************)
(* Bounds of the model.                                                    *)
(***************************************************************************)
\* rows read by import_table for one table
NRows == 1
\* number of code changes (version bumps, removals of a type) explored; every
\* version starts at 1, so no version exceeds MaxChanges + 1
MaxChanges == 1
\* number of `import` invocations explored
MaxRuns == 2

(***************************************************************************)
(* Dataset types: the classes the registry discovers.  A chain of three    *)
(* imported tables with a shared sub-dependency, a downloaded file behind  *)
(* an external file, and an S3 mirror chain behind an FTP timestamped file.*)
(***************************************************************************)
Types == {"Src", "File", "Ftp", "Mirror", "MFile", "Leaf", "Mid", "Top", "Full"}

\* Dataset.depends of every class, in declaration order
depends ==
    [t \in Types |->
        CASE t = "File"   -> <<"Src">>
          [] t = "Mirror" -> <<"Ftp">>
          [] t = "MFile"  -> <<"Mirror">>
          [] t = "Mid"    -> <<"Leaf">>
          [] t = "Top"    -> <<"Mid", "Leaf">>
          [] t = "Full"   -> <<"MFile", "File">>
          [] OTHER        -> << >>]

\* the base class of every type
Kind ==
    [t \in Types |->
        CASE t = "Src"    -> "ExternalFile"
          [] t = "Ftp"    -> "FTPTimestampedFile"
          [] t = "File"   -> "LocalFile"
          [] t = "Mirror" -> "S3MirrorFile"
          [] t = "MFile"  -> "S3MirroredLocalFile"
          [] OTHER        -> "ImportedTable"]

\* the types that define the optional check() method
HasCheck == {"Mid", "Full"}

\* the type names in the order Python's sorted() gives them
SortedTypes == <<"File", "Ftp", "Full", "Leaf", "MFile", "Mid", "Mirror", "Src", "Top">>

DepSet(t) == {depends[t][k] : k \in 1..Len(depends[t])}

\* Dataset.rdepends: the registered classes that list t in depends
rdepends(reg, t) == {u \in reg : t \in DepSet(u)}

RECURSIVE Closure(_)
\* the types of the instances cls() constructs: t and its transitive inputs
Closure(t) == {t} \cup UNION {Closure(d) : d \in DepSet(t)}

\* the types that transitively depend on m (m included)
Dependents(m) == {t \in Types : m \in Closure(t)}

VARIABLES
    version,        \* version[t]: the version attribute of class t in the current code
    TYPE_REGISTRY,  \* the types the registry currently holds
    ledger,         \* the rows of the `system` table
    tables,         \* table name -> number of rows imported, for every table in MySQL
    files,          \* path -> "partial" | "complete", for every file on local disk
    s3,             \* the keys present in the S3 mirror bucket
    ftp_ok,         \* the FTP server currently offers the expected version
    status,         \* "idle" | "running" | "done" | "failed": the import command
    stack,          \* the active produce_recursive calls, innermost last
    root,           \* the type the running (or last) import was started on
    dry_run,        \* the --dry-run flag of the running (or last) import
    runs,           \* imports started so far
    changes,        \* code changes made so far
    \* ---- history of the current run, read only by the properties ----
    calls,          \* <<caller, callee>> of every produce_recursive call made
    visited,        \* instances whose exists() was evaluated
    produceCalled,  \* instances whose produce() was invoked
    checkCalled,    \* instances whose check() was invoked
    returned,       \* instances whose produce_recursive returned normally
    failedAt,       \* the instance whose exists()/produce()/check() raised, or "none"
    failStage,      \* "exists" | "produce" | "check" | "none"
    failPath,       \* the produce_recursive calls that were active at the failure, outermost first
    twice,          \* this run repeats the preceding successful real run of the same root
    prevOkRoot,     \* root of the preceding run if it was a successful real run, else "none"
    lastBump,       \* the bumped type and the ledger as it was at the last version bump
    \* ---- the other commands and processes ----
    cmd,            \* the running (or last) prune / drop command
    rival,          \* a second build process working on the same database
    edit,           \* an edited copy of the code: the version and depends of every class
    built,          \* the instance last constructed from the edited code
    scan,           \* import_dataset_classes: the members to look at and the classes found
    \* ---- history of the commands, read only by the properties ----
    session         \* the last command started; whether the running import repeats a failed
                    \* import of the same root, and what that failed import had produced

store == <<ledger, tables, files, s3>>
code == <<version, TYPE_REGISTRY>>
vars == <<version, TYPE_REGISTRY, ledger, tables, files, s3, ftp_ok, status, stack, root, dry_run,
          runs, changes, calls, visited, produceCalled, checkCalled, returned, failedAt, failStage,
          failPath, twice, prevOkRoot, lastBump, cmd, rival, edit, built, scan, session>>

\* what the import command never touches
aux == <<cmd, rival, edit, built, scan>>

(***************************************************************************)
(* Fingerprinting: Dataset.__init__ and calculate_sha.                     *)
(***************************************************************************)
\* mutant: the formula leaves out the formulas of the inputs
formula_without_inputs(ver, t) == [type |-> t, version |-> ToString(ver[t]), inputs |-> << >>]

\* the version attribute as json.dumps writes it; 0 stands for the default
\* `version = None` of a class that declares no version
version_str(v) == IF v = 0 THEN "null" ELSE ToString(v)

\* mutant: the formula holds the type and version of each input, not its formula
formula_of_shallow(dep, ver, t) ==
    [type    |-> t,
     version |-> version_str(ver[t]),
     inputs  |-> [k \in 1..Len(dep[t]) |->
                    <<dep[t][k], [type |-> dep[t][k], version |-> version_str(ver[dep[t][k]]),
                                  inputs |-> << >>]>>]]

\* mutant: the version is left out of the formula
formula_of_no_version(dep, ver, t) ==
    [type    |-> t,
     version |-> "null",
     inputs  |-> [k \in 1..Len(dep[t]) |->
                    <<dep[t][k], [type |-> dep[t][k], version |-> "null", inputs |-> << >>]>>]]

RECURSIVE formula_of(_, _, _)
\* self.formula: type, version and the inputs' formulas, keyed by input type
\* name in the order of `depends` (an OrderedDict), for classes declared with
\* the depends lists dep and the versions ver
formula_of(dep, ver, t) ==
    [type    |-> t,
     version |-> version_str(ver[t]),
     inputs  |-> [k \in 1..Len(dep[t]) |-> <<dep[t][k], formula_of(dep, ver, dep[t][k])>>]]

\* self.formula of an instance of class t of the current code
formula_at(ver, t) == formula_of(depends, ver, t)

RECURSIVE json_dumps(_)
RECURSIVE json_dumps_items(_, _)
\* json.dumps of a formula: the tokens of the JSON text, keys in insertion order
json_dumps(f) ==
    <<"{", "type", f.type, "version", f.version, "inputs", "{">>
        \o json_dumps_items(f.inputs, 1) \o <<"}", "}">>
json_dumps_items(items, k) ==
    IF k > Len(items) THEN << >>
    ELSE <<items[k][1]>> \o json_dumps(items[k][2]) \o json_dumps_items(items, k + 1)

\* the tokens a formula's JSON text is made of
Alphabet ==
    <<"{", "}", "type", "version", "inputs", "null">> \o SortedTypes
        \o [v \in 1..(MaxChanges + 1) |-> ToString(v)]

Ord(tok) == CHOOSE i \in 1..Len(Alphabet) : Alphabet[i] = tok

RECURSIVE digest(_, _)
\* the digest of the tokens of obj fed in order into the running value h
\* (the text is split in halves only to keep the evaluation shallow)
digest(obj, h) ==
    IF Len(obj) = 0 THEN h
    ELSE IF Len(obj) = 1 THEN (h * 31 + Ord(obj[1])) % 1000003
    ELSE LET m == Len(obj) \div 2
             left == digest(SubSeq(obj, 1, m), h)
         IN  IF left >= 0 THEN digest(SubSeq(obj, m + 1, Len(obj)), left) ELSE 0

\* calculate_sha: a fixed-width digest of the text.  hashlib's SHA-256 cut to
\* num_chars hex digits is modelled by a polynomial digest over the tokens in
\* a fixed range.
calculate_sha(obj) == digest(obj, 7)

formula(t) == formula_at(version, t)
formula_json(t) == json_dumps(formula(t))
formula_sha(t) == calculate_sha(formula_json(t))

is_root(t) == depends[t] = << >>

\* the inputs of t ordered as sorted(self.inputs.items())
sorted_inputs(t) ==
    SelectSeq(SortedTypes, LAMBDA n : n \in DepSet(t))

RECURSIVE root_versions_at(_, _)
RECURSIVE root_versions_sum(_, _, _)
\* Dataset.root_versions: the versions of all root ancestors
root_versions_at(ver, t) ==
    IF is_root(t) THEN <<ver[t]>>
    ELSE root_versions_sum(ver, sorted_inputs(t), 1)
root_versions_sum(ver, inps, k) ==
    IF k > Len(inps) THEN << >>
    ELSE root_versions_at(ver, inps[k]) \o root_versions_sum(ver, inps, k + 1)

root_versions(t) == root_versions_at(version, t)

\* mutant: the name is made of the type and the root versions only
name_without_sha(t) ==
    LET rv == root_versions(t)
    IN  <<t, SubSeq(rv, 1, IF Len(rv) < 2 THEN Len(rv) ELSE 2), 0>>

\* Dataset.name: '{type}::{roots}::{sha}' with the first two root versions
name(t) ==
    LET rv == root_versions(t)
    IN  <<t, SubSeq(rv, 1, IF Len(rv) < 2 THEN Len(rv) ELSE 2), formula_sha(t)>>

\* ImportedTable.table_name
table_name(t) == name(t)
\* LocalFile.path
path(t) == name(t)
\* S3MirrorFile.s3_key
s3_key(t) == name(t)


\* S3MirrorFile.local_download_path: the path of the sole dependent, else /tmp
local_download_path(t) ==
    LET rd == rdepends(TYPE_REGISTRY, t)
    IN  IF Cardinality(rd) = 1 THEN path(CHOOSE u \in rd : TRUE)
        ELSE <<"/tmp", name(t)[2], name(t)[3]>>

(***************************************************************************)
(* The store: SQL statements, files and S3 objects.                        *)
(***************************************************************************)
Without(f, x) == [y \in DOMAIN f \ {x} |-> f[y]]
With(f, x, v) == [y \in DOMAIN f \cup {x} |-> IF y = x THEN v ELSE f[y]]

\* settings.SGX_INSTANCE_ID of the machine the import command runs on
SGX_INSTANCE_ID == "i1"

\* the row ImportedTable._update_system_table inserts
system_row(t) ==
    [sha |-> formula_sha(t), type |-> t, name |-> name(t),
     table_name |-> table_name(t), formula |-> formula_json(t), instance_id |-> SGX_INSTANCE_ID]

\* mutant: the sha column carries no key, every INSERT is accepted
insert_never_refused(ldg, row) == FALSE

\* INSERT INTO `system`: sha is the primary key, a duplicate is refused
insert_refused(ldg, row) == \E r \in ldg : r.sha = row.sha

\* mutant: produce() registers nothing in the ledger
update_system_table_nothing(ldg, t) == ldg

\* ImportedTable._update_system_table
update_system_table(ldg, t) == ldg \cup {system_row(t)}

\* mutant: the DELETE has no WHERE clause
sql_delete_all(ldg, n) == {}

\* mutant: the DELETE removes every row of the type of the named table
sql_drop_from_system_by_type(ldg, n) == {r \in ldg : r.type # n[1]}

\* ImportedTable.sql_drop_from_system: DELETE FROM `system` WHERE name = table
sql_drop_from_system(ldg, n) == {r \in ldg : r.name # n}

\* ImportedTable.sql_drop_table: DROP TABLE IF EXISTS
sql_drop_table(tbs, n) == Without(tbs, n)

(***************************************************************************)
(* exists() of every node variant.                                         *)
(***************************************************************************)
\* FTPTimestampedFile.exists asserts that the server offers self.version
exists_raises(t) == Kind[t] = "FTPTimestampedFile" /\ ~ftp_ok

\* mutant: nothing that cabin produced is ever found again
exists_external_only(t) == Kind[t] = "ExternalFile" \/ (Kind[t] = "FTPTimestampedFile" /\ ftp_ok)

\* exists() of the class of t
exists(t) ==
    CASE Kind[t] = "ExternalFile"        -> TRUE
      [] Kind[t] = "FTPTimestampedFile"  -> ftp_ok
      [] Kind[t] = "LocalFile"           -> path(t) \in DOMAIN files
      [] Kind[t] = "S3MirroredLocalFile" -> path(t) \in DOMAIN files
      [] Kind[t] = "S3MirrorFile"        -> s3_key(t) \in s3
      [] Kind[t] = "ImportedTable"       -> \E r \in ledger : r.sha = formula_sha(t)

(***************************************************************************)
(* Dataset.produce_recursive as a stack of calls.  A frame is one call:    *)
(* the instance, the dry_run argument, the position in the body and the    *)
(* index of the next input of the for loop.                                *)
(***************************************************************************)
Frame(t, dry) == [type |-> t, dry_run |-> dry, pc |-> "enter", i |-> 1]
Top == stack[Len(stack)]
Pop(st) == SubSeq(st, 1, Len(st) - 1)
SetTop(st, fr) == [st EXCEPT ![Len(st)] = fr]

\* mutant: the inputs are not built before the instance is produced
after_exists_skip_inputs(ex) == IF ex THEN "return" ELSE "produce"

\* mutant: the result of exists() is ignored and the inputs are always visited
after_exists_always_recurse(ex) == "deps"

\* the branch produce_recursive takes on the result of self.exists()
after_exists(ex) == IF ex THEN "return" ELSE "deps"

\* mutant: the recursive call is made without the flag, dry_run=False by default
child_dry_run_default(fr) == FALSE

\* the dry_run argument of the recursive call inp.produce_recursive(dry_run=dry_run)
child_dry_run(fr) == fr.dry_run

\* mutant: the caller catches the exception of an input and goes on
propagate_caught(st) == Pop(st)

\* produce_recursive has no exception handler: a raise leaves every active call
propagate(st) == << >>

\* the first statement of produce() for every node variant
produce_entry(t) ==
    CASE Kind[t] = "ImportedTable"       -> "create_table"
      [] Kind[t] = "LocalFile"           -> "wget_popen"
      [] Kind[t] = "S3MirrorFile"        -> "wget_popen"
      [] Kind[t] = "S3MirroredLocalFile" -> "download_file"
      [] OTHER                           -> "assert_exists"

\* what follows a produce() that returned: the optional check(), or the return
after_produce(t) == IF t \in HasCheck THEN "check" ELSE "produced"

Running == status = "running" /\ stack # << >>

\* the call returns to its caller
Ret(fr) ==
    /\ stack' = Pop(stack)
    /\ returned' = returned \cup {fr.type}
    /\ status' = IF Len(stack) = 1 THEN "done" ELSE "running"
    /\ prevOkRoot' = IF Len(stack) = 1 /\ ~fr.dry_run THEN root ELSE prevOkRoot
    /\ UNCHANGED <<failedAt, failStage, failPath>>

\* an exception leaves the call
Raise(t, stage) ==
    /\ stack' = propagate(stack)
    /\ status' = IF propagate(stack) = << >> THEN "failed" ELSE "running"
    /\ failedAt' = t
    /\ failStage' = stage
    /\ failPath' = stack
    /\ UNCHANGED <<returned, prevOkRoot>>

\* the call goes on at position pc
Goto(fr, pc) ==
    /\ stack' = SetTop(stack, [fr EXCEPT !.pc = pc])
    /\ UNCHANGED <<status, returned, failedAt, failStage, failPath, prevOkRoot>>

\* what follows produce()'s last statement
Produced(fr) ==
    IF after_produce(fr.type) = "check" THEN Goto(fr, "check") ELSE Ret(fr)

env == <<version, TYPE_REGISTRY, ftp_ok, root, dry_run, runs, changes, twice, lastBump, aux,
         session>>

(***************************************************************************)
(* Initial state: fresh code, empty store, nothing running.                *)
(***************************************************************************)
NoBump == [M |-> "none", ledger |-> {}, complete |-> {}, latest |-> {}, runsAfter |-> 0]

\* no prune or drop command was given yet
NoCmd ==
    [name |-> "none", glob |-> <<"", FALSE>>, dry_run |-> FALSE, pc |-> "idle", todo |-> << >>,
     cur |-> << >>, ledger |-> {}, tables |-> {}, n |-> 0, reported |-> {}, ret |-> "None"]

\* no command was given yet
NoSession == [last |-> "none", retry |-> FALSE, produced |-> {}]

\* the registry was not built yet
NoScan == [pc |-> "idle", members |-> << >>, classes |-> << >>, all |-> << >>]

\* the second process has not started
NoRival == [pc |-> "idle", type |-> "none", refused |-> FALSE]

\* nothing was constructed yet
NoInstance == [type |-> "none"]

Init ==
    /\ version = [t \in Types |-> 1]
    /\ TYPE_REGISTRY = Types
    /\ ledger = {}
    /\ tables = [n \in {} |-> 0]
    /\ files = [n \in {} |-> "partial"]
    /\ s3 = {}
    /\ ftp_ok = TRUE
    /\ status = "idle"
    /\ stack = << >>
    /\ root = "none"
    /\ dry_run = FALSE
    /\ runs = 0
    /\ changes = 0
    /\ calls = {}
    /\ visited = {}
    /\ produceCalled = {}
    /\ checkCalled = {}
    /\ returned = {}
    /\ failedAt = "none"
    /\ failStage = "none"
    /\ failPath = << >>
    /\ twice = FALSE
    /\ prevOkRoot = "none"
    /\ lastBump = NoBump
    /\ cmd = NoCmd
    /\ rival = NoRival
    /\ edit = [version |-> [t \in Types |-> 1], depends |-> depends, n |-> 0]
    /\ built = NoInstance
    /\ scan = NoScan
    /\ session = NoSession

(***************************************************************************)
(* ImportCommand.run for one matching class: ds = cls();                   *)
(* ds.produce_recursive(dry_run=args.dry_run).  The state of the FTP       *)
(* server is whatever it is when the command starts (it is only looked at  *)
(* by a run that reaches the FTP timestamped file).                        *)
(***************************************************************************)
Start(r, dry) ==
    /\ status # "running"
    /\ runs < MaxRuns
    /\ r \in TYPE_REGISTRY
    /\ \E ok \in BOOLEAN : ftp_ok' = (ok \/ "Ftp" \notin Closure(r))
    /\ stack' = <<Frame(r, dry)>>
    /\ status' = "running"
    /\ root' = r
    /\ dry_run' = dry
    /\ runs' = runs + 1
    /\ calls' = {<<"import", r>>}
    /\ visited' = {}
    /\ produceCalled' = {}
    /\ checkCalled' = {}
    /\ returned' = {}
    /\ failedAt' = "none"
    /\ failStage' = "none"
    /\ failPath' = << >>
    /\ twice' = (prevOkRoot = r /\ ~dry)
    /\ prevOkRoot' = "none"
    /\ lastBump' = [lastBump EXCEPT !.runsAfter = IF @ < 2 THEN @ + 1 ELSE @]
    /\ session' = IF session.last = "import" /\ status = "failed" /\ root = r
                  THEN [last |-> "import", retry |-> TRUE, produced |-> produceCalled \cap returned]
                  ELSE [last |-> "import", retry |-> FALSE, produced |-> {}]
    /\ UNCHANGED <<version, TYPE_REGISTRY, changes, store, aux>>

(***************************************************************************)
(* produce_recursive, core.py:121-138.                                     *)
(***************************************************************************)
\* if self.exists(): ... else: ...
Enter ==
    /\ Running
    /\ Top.pc = "enter"
    /\ visited' = visited \cup {Top.type}
    /\ IF exists_raises(Top.type) THEN Raise(Top.type, "exists")
       ELSE IF after_exists(exists(Top.type)) = "return" THEN Ret(Top)
       ELSE Goto(Top, after_exists(exists(Top.type)))
    /\ UNCHANGED <<store, env, calls, produceCalled, checkCalled>>

\* for inp in self.inputs.values(): inp.produce_recursive(dry_run=dry_run)
LoopInputs ==
    /\ Running
    /\ Top.pc = "deps"
    /\ IF Top.i <= Len(depends[Top.type])
       THEN /\ stack' = SetTop(stack, [Top EXCEPT !.i = @ + 1])
                           \o <<Frame(depends[Top.type][Top.i], child_dry_run(Top))>>
            /\ calls' = calls \cup {<<Top.type, depends[Top.type][Top.i]>>}
            /\ UNCHANGED <<status, returned, failedAt, failStage, failPath, prevOkRoot>>
       ELSE /\ Goto(Top, "produce")
            /\ UNCHANGED calls
    /\ UNCHANGED <<store, env, visited, produceCalled, checkCalled>>

\* if not dry_run: self.produce().  ExternalFile.produce only asserts
\* self.exists().
BeginProduce ==
    /\ Running
    /\ Top.pc = "produce"
    /\ IF Top.dry_run
       THEN Ret(Top) /\ UNCHANGED produceCalled
       ELSE /\ produceCalled' = produceCalled \cup {Top.type}
            /\ IF produce_entry(Top.type) # "assert_exists" THEN Goto(Top, produce_entry(Top.type))
               ELSE IF exists(Top.type) THEN Produced(Top)
               ELSE Raise(Top.type, "produce")
    /\ UNCHANGED <<store, env, calls, visited, checkCalled>>

\* if hasattr(self, 'check'): self.check()
Check ==
    /\ Running
    /\ Top.pc = "check"
    /\ checkCalled' = checkCalled \cup {Top.type}
    /\ \E ok \in BOOLEAN : IF ok THEN Ret(Top) ELSE Raise(Top.type, "check")
    /\ UNCHANGED <<store, env, calls, visited, produceCalled>>

(***************************************************************************)
(* ImportedTable.produce, db.py:32-52.  Every statement may raise (an SQL  *)
(* error, a reader error, an interrupt); the handler then runs             *)
(* failed_import_cleanup on a new cursor and re-raises.                    *)
(***************************************************************************)
\* self._create_table(cursor): CREATE TABLE fails on an existing table
CreateTable ==
    /\ Running
    /\ Top.pc = "create_table"
    /\ \E ok \in BOOLEAN :
          IF ok /\ table_name(Top.type) \notin DOMAIN tables
          THEN /\ tables' = With(tables, table_name(Top.type), 0)
               /\ Goto(Top, "import_table")
          ELSE /\ UNCHANGED tables
               /\ Goto(Top, "cleanup_drop")
    /\ UNCHANGED <<ledger, files, s3, env, calls, visited, produceCalled, checkCalled>>

\* self.import_table(cursor): one INSERT per record read
ImportTable ==
    /\ Running
    /\ Top.pc = "import_table"
    /\ \E ok \in BOOLEAN :
          IF ok /\ table_name(Top.type) \in DOMAIN tables
          THEN /\ tables' = [tables EXCEPT ![table_name(Top.type)] = @ + 1]
               /\ Goto(Top, IF tables[table_name(Top.type)] + 1 >= NRows
                            THEN "update_system_table" ELSE "import_table")
          ELSE /\ UNCHANGED tables
               /\ Goto(Top, "cleanup_drop")
    /\ UNCHANGED <<ledger, files, s3, env, calls, visited, produceCalled, checkCalled>>

\* self._update_system_table(cursor)
UpdateSystemTable ==
    /\ Running
    /\ Top.pc = "update_system_table"
    /\ \E ok \in BOOLEAN :
          IF ok /\ ~insert_refused(ledger, system_row(Top.type))
          THEN /\ ledger' = update_system_table(ledger, Top.type)
               /\ Goto(Top, "get_nrows")
          ELSE /\ UNCHANGED ledger
               /\ Goto(Top, "cleanup_drop")
    /\ UNCHANGED <<tables, files, s3, env, calls, visited, produceCalled, checkCalled>>

\* logger.info(... self.get_nrows(cursor) ...): the last statement of the try block
GetNrows ==
    /\ Running
    /\ Top.pc = "get_nrows"
    /\ \E ok \in BOOLEAN :
          IF ok /\ table_name(Top.type) \in DOMAIN tables THEN Produced(Top)
          ELSE Goto(Top, "cleanup_drop")
    /\ UNCHANGED <<store, env, calls, visited, produceCalled, checkCalled>>

\* failed_import_cleanup: cursor.execute(self.sql_drop_table)
CleanupDropTable ==
    /\ Running
    /\ Top.pc = "cleanup_drop"
    /\ tables' = sql_drop_table(tables, table_name(Top.type))
    /\ Goto(Top, "cleanup_delete")
    /\ UNCHANGED <<ledger, files, s3, env, calls, visited, produceCalled, checkCalled>>

\* failed_import_cleanup: cursor.execute(self.sql_drop_from_system); raise e
CleanupDropFromSystem ==
    /\ Running
    /\ Top.pc = "cleanup_delete"
    /\ ledger' = sql_drop_from_system(ledger, table_name(Top.type))
    /\ Raise(Top.type, "produce")
    /\ UNCHANGED <<tables, files, s3, env, calls, visited, produceCalled, checkCalled>>

(***************************************************************************)
(* wget (io.py:145-155) and the produce() of the file variants.            *)
(***************************************************************************)
\* where this instance's produce() downloads to
wget_destination(t) ==
    IF Kind[t] = "S3MirrorFile" THEN local_download_path(t) ELSE path(t)

\* the file system after wget: a zero return code leaves the whole file, any
\* other return code makes wget() remove the destination, and an interrupt of
\* proc.communicate() leaves what was written so far
wget(fs, dest, out) ==
    CASE out = "ok"        -> With(fs, dest, "complete")
      [] out = "error"     -> Without(fs, dest)
      [] out = "interrupt" -> fs

\* LocalFile.produce's handler: os.unlink(self.path), for any exception
unlink_partial(fs, p) == Without(fs, p)

\* subprocess.Popen(['wget', ..., '-O', destination]): the destination is opened
WgetPopen ==
    /\ Running
    /\ Top.pc = "wget_popen"
    /\ files' = With(files, wget_destination(Top.type), "partial")
    /\ Goto(Top, "wget_communicate")
    /\ UNCHANGED <<ledger, tables, s3, env, calls, visited, produceCalled, checkCalled>>

\* proc.communicate() and the return code, in LocalFile.produce (files.py:76-83)
\* and in S3MirrorFile.produce (files.py:122-125), which has no handler
WgetCommunicate ==
    /\ Running
    /\ Top.pc = "wget_communicate"
    /\ \E out \in {"ok", "error", "interrupt"} :
          IF Kind[Top.type] = "S3MirrorFile"
          THEN /\ files' = wget(files, wget_destination(Top.type), out)
               /\ IF out = "ok" THEN Goto(Top, "upload_file") ELSE Raise(Top.type, "produce")
          ELSE /\ files' = IF out = "ok" THEN wget(files, path(Top.type), out)
                           ELSE unlink_partial(wget(files, path(Top.type), out), path(Top.type))
               /\ IF out = "ok" THEN Produced(Top) ELSE Raise(Top.type, "produce")
    /\ UNCHANGED <<ledger, tables, s3, env, calls, visited, produceCalled, checkCalled>>

\* S3MirrorFile.produce: bucket.upload_file(local_path, self.s3_key)
UploadFile ==
    /\ Running
    /\ Top.pc = "upload_file"
    /\ \E ok \in BOOLEAN :
          IF ok THEN s3' = s3 \cup {s3_key(Top.type)} /\ Produced(Top)
          ELSE UNCHANGED s3 /\ Raise(Top.type, "produce")
    /\ UNCHANGED <<ledger, tables, files, env, calls, visited, produceCalled, checkCalled>>

\* S3MirroredLocalFile.produce: if not self.exists(): bucket.download_file(...)
DownloadFile ==
    /\ Running
    /\ Top.pc = "download_file"
    /\ IF exists(Top.type) THEN UNCHANGED files /\ Produced(Top)
       ELSE \E ok \in BOOLEAN :
               IF ok THEN files' = With(files, path(Top.type), "complete") /\ Produced(Top)
               ELSE UNCHANGED files /\ Raise(Top.type, "produce")
    /\ UNCHANGED <<ledger, tables, s3, env, calls, visited, produceCalled, checkCalled>>

(***************************************************************************)
(* HistoricalDataset (core.py:194-245): a ledger row read back.            *)
(***************************************************************************)
RECURSIVE json_loads_at(_, _)
RECURSIVE json_loads_items(_, _)
\* json.loads of the object that starts at token p, and the place after it
json_loads_at(toks, p) ==
    LET items == json_loads_items(toks, p + 7)
    IN  [val  |-> [type |-> toks[p + 2], version |-> toks[p + 4], inputs |-> items.val],
         next |-> items.next + 1]
json_loads_items(toks, p) ==
    IF toks[p] = "}" THEN [val |-> << >>, next |-> p + 1]
    ELSE LET sub  == json_loads_at(toks, p + 1)
             rest == json_loads_items(toks, sub.next)
         IN  [val |-> <<(<<toks[p], sub.val>>)>> \o rest.val, next |-> rest.next]

\* mutant: only the outermost object is read, its inputs are left out
json_loads_top_level(toks) == [type |-> toks[3], version |-> toks[5], inputs |-> << >>]

\* json.loads(formula_json)
json_loads(toks) == json_loads_at(toks, 1).val

RECURSIVE HistoricalDataset(_)
\* HistoricalDataset.__init__(formula): type, version, the signature recomputed
\* from json.dumps(formula), and a HistoricalDataset for every input formula
HistoricalDataset(f) ==
    [type |-> f.type, version |-> f.version, formula |-> f, formula_json |-> json_dumps(f),
     formula_sha |-> calculate_sha(json_dumps(f)),
     inputs |-> [k \in 1..Len(f.inputs) |-> <<f.inputs[k][1], HistoricalDataset(f.inputs[k][2])>>]]

\* HistoricalDataset.__init__: self.formula_sha, recomputed from the stored formula
hd_formula_sha(row) == calculate_sha(json_dumps(json_loads(row.formula)))

\* mutant: only the record's own version is compared with the current code
is_latest_own_version(row) ==
    /\ row.type \in TYPE_REGISTRY
    /\ json_loads(row.formula).version = ToString(version[row.type])

\* HistoricalDataset.is_latest
is_latest(row) ==
    IF row.type \notin TYPE_REGISTRY THEN FALSE
    ELSE formula_sha(row.type) = hd_formula_sha(row)

(***************************************************************************)
(* Changes of the code between two commands.                               *)
(***************************************************************************)
ClearRun ==
    /\ status' = "idle"
    /\ calls' = {}
    /\ visited' = {}
    /\ produceCalled' = {}
    /\ checkCalled' = {}
    /\ returned' = {}
    /\ failedAt' = "none"
    /\ failStage' = "none"
    /\ failPath' = << >>
    /\ twice' = FALSE
    /\ prevOkRoot' = "none"
    /\ session' = [session EXCEPT !.retry = FALSE, !.produced = {}]

\* the author bumps the version attribute of class t
BumpVersion(t) ==
    /\ status # "running"
    /\ changes < MaxChanges
    /\ t \in TYPE_REGISTRY
    /\ version' = [version EXCEPT ![t] = @ + 1]
    /\ changes' = changes + 1
    /\ lastBump' = [M         |-> t,
                    ledger    |-> ledger,
                    complete  |-> {r \in TYPE_REGISTRY :
                                     \A u \in Closure(r) : \E row \in ledger : row.sha = formula_sha(u)},
                    latest    |-> {row \in ledger : is_latest(row)},
                    runsAfter |-> 0]
    /\ ClearRun
    /\ UNCHANGED <<TYPE_REGISTRY, store, ftp_ok, stack, root, dry_run, runs, aux>>

\* class t is removed from the package the registry scans
Unregister(t) ==
    /\ status # "running"
    /\ changes < MaxChanges
    /\ t \in TYPE_REGISTRY
    /\ rdepends(TYPE_REGISTRY, t) = {}
    /\ TYPE_REGISTRY' = TYPE_REGISTRY \ {t}
    /\ changes' = changes + 1
    /\ lastBump' = NoBump
    /\ ClearRun
    /\ UNCHANGED <<version, store, ftp_ok, stack, root, dry_run, runs, aux>>

Next ==
    \/ \E r \in Types, dry \in BOOLEAN : Start(r, dry)
    \/ Enter
    \/ LoopInputs
    \/ BeginProduce
    \/ Check
    \/ CreateTable
    \/ ImportTable
    \/ UpdateSystemTable
    \/ GetNrows
    \/ CleanupDropTable
    \/ CleanupDropFromSystem
    \/ WgetPopen
    \/ WgetCommunicate
    \/ UploadFile
    \/ DownloadFile
    \/ \E t \in Types : BumpVersion(t)
    \/ \E t \in Types : Unregister(t)

Spec == Init /\ [][Next]_vars

(***************************************************************************)
(* The prune and drop commands (app.py:190-232) over the ledger records    *)
(* read back by db.imported_tables, and HistoricalDataset.drop.            *)
(***************************************************************************)
\* number of prune / drop commands explored
MaxCmds == 1

READER == "reader"
WRITER == "writer"

\* _MySQL.initialize: GRANT SELECT to the reader, ALL PRIVILEGES to the writer
grants ==
    [u \in {READER, WRITER} |->
        IF u = READER THEN {"SELECT"}
        ELSE {"SELECT", "INSERT", "DELETE", "CREATE", "DROP"}]

\* mutant: every user may execute every statement
granted_all(user, priv) == TRUE

\* the server executes a statement only for a user that holds its privilege
granted(user, priv) == priv \in grants[user]

\* MYSQL.cursor(user=READER): the user of a cursor opened without argument
cursor_default_user == READER

\* the roots whose closure consists of imported tables only
TableRoots == {"Leaf", "Mid", "Top"}

\* the patterns given on the command line: <<T, TRUE>> is 'T*', <<"", TRUE>> is
\* '*', <<T, FALSE>> is 'T', and <<"", FALSE>> is no pattern at all
Globs == {<<"", TRUE>>, <<"Mid", TRUE>>, <<"Mid", FALSE>>}
NoGlob == <<"", FALSE>>
\* a pattern that is the name of no class
NoMatchGlob == <<"Nil", FALSE>>

\* fnmatch.fnmatch(cls.__name__, glob)
fnmatch_class(cls, glob) ==
    IF glob[2] THEN glob[1] = "" \/ glob[1] = cls ELSE glob[1] = cls

\* fnmatch.fnmatch(hdataset.name, glob): the name is 'type::roots::sha'
fnmatch_name(n, glob) == glob[2] /\ (glob[1] = "" \/ glob[1] = n[1])

\* mutant: the pattern is matched against every type name ever declared
glob_datasets_any_type(glob) == {c \in Types : fnmatch_class(c, glob)}

\* glob_datasets(glob, tables_only=False): the names of the matching classes
glob_datasets(glob) == {c \in TYPE_REGISTRY : fnmatch_class(c, glob)}

\* glob_datasets(glob, tables_only=True)
glob_datasets_tables(glob) == {c \in glob_datasets(glob) : Kind[c] = "ImportedTable"}

Index(t) == CHOOSE i \in 1..Len(SortedTypes) : SortedTypes[i] = t

RECURSIVE SeqLess(_, _)
\* lexicographic order of two sequences of numbers
SeqLess(a, b) ==
    IF a = << >> THEN b # << >>
    ELSE IF b = << >> THEN FALSE
    ELSE IF Head(a) # Head(b) THEN Head(a) < Head(b)
    ELSE SeqLess(Tail(a), Tail(b))

\* the order of two names in ORDER BY name
NameLess(a, b) ==
    IF a[1] # b[1] THEN Index(a[1]) < Index(b[1])
    ELSE IF a[2] # b[2] THEN SeqLess(a[2], b[2])
    ELSE a[3] < b[3]

RECURSIVE order_by_name(_)
\* SELECT name, formula, sha FROM `system` ORDER BY name
order_by_name(rows) ==
    IF rows = {} THEN << >>
    ELSE LET m == CHOOSE r \in rows : \A q \in rows : ~NameLess(q.name, r.name)
         IN  <<m>> \o order_by_name(rows \ {m})

\* the command ends
CmdEnd(how) ==
    /\ status' = how
    /\ cmd' = [cmd EXCEPT !.pc = "end", !.ret = IF how = "done" THEN "None" ELSE "raised"]

\* what a prune or drop command leaves alone
cmdenv == <<version, TYPE_REGISTRY, files, s3, ftp_ok, stack, root, dry_run, runs, changes, calls,
            visited, produceCalled, checkCalled, returned, failedAt, failStage, failPath, twice,
            prevOkRoot, lastBump, rival, edit, built, scan, session>>

\* a prune or drop command is started; imported_tables() runs its SELECT
CmdStart(nm, glob, dry) ==
    /\ status # "running"
    /\ cmd.n < MaxCmds
    /\ cmd' = [name |-> nm, glob |-> glob, dry_run |-> dry, pc |-> "next",
               todo |-> order_by_name(ledger), cur |-> << >>,
               ledger |-> ledger, tables |-> DOMAIN tables, n |-> cmd.n + 1,
               reported |-> {}, ret |-> "None"]
    /\ status' = "running"
    /\ stack' = << >>
    /\ session' = [last |-> nm, retry |-> FALSE, produced |-> {}]
    /\ UNCHANGED <<version, TYPE_REGISTRY, store, ftp_ok, root, dry_run, runs, changes, calls,
                   visited, produceCalled, checkCalled, returned, failedAt, failStage, failPath,
                   twice, prevOkRoot, lastBump, rival, edit, built, scan>>

\* PruneCommand.run is entered
PruneStart(glob, dry) == CmdStart("prune", glob, dry)

\* DropCommand.run is entered
DropStart(glob, dry) == CmdStart("drop", glob, dry)

CmdRunning(nm) == status = "running" /\ cmd.name = nm

\* PruneCommand.run: skip the records outside the glob, drop those not latest
prune_selects(hd) ==
    /\ cmd.glob = NoGlob \/ hd.type \in glob_datasets(cmd.glob)
    /\ ~is_latest(hd)

\* DropCommand.run: drop the records whose name matches the glob
drop_selects(hd) == fnmatch_name(hd.name, cmd.glob)

\* the next record of imported_tables(): HistoricalDataset(formula, name, sha)
\* asserts the recomputed sha; then the body of the for loop of command nm is
\* run on it
CmdNext(nm) ==
    /\ cmd.pc = "next"
    /\ IF cmd.todo = << >> THEN CmdEnd("done")
       ELSE LET hd == Head(cmd.todo)
                selected == IF nm = "prune" THEN prune_selects(hd) ELSE drop_selects(hd)
            IN  IF hd_formula_sha(hd) # hd.sha THEN CmdEnd("failed")
                ELSE IF selected /\ ~cmd.dry_run
                     THEN /\ cmd' = [cmd EXCEPT !.todo = Tail(@), !.cur = <<hd>>, !.pc = "drop_table"]
                          /\ UNCHANGED status
                     ELSE /\ cmd' = [cmd EXCEPT !.todo = Tail(@),
                                                !.reported = IF selected THEN @ \cup {hd} ELSE @]
                          /\ UNCHANGED status
    /\ UNCHANGED <<ledger, tables, cmdenv>>

PruneNext == CmdRunning("prune") /\ CmdNext("prune")

DropNext == CmdRunning("drop") /\ CmdNext("drop")

\* ImportCommand.run with nothing to build: without a dataset argument (and
\* without --all) it raises BiodbError, which App.run catches to return 1;
\* with a pattern that matches no class it returns 1 itself
ImportNothing(glob) ==
    /\ status # "running"
    /\ cmd.n < MaxCmds
    /\ glob = NoGlob \/ glob_datasets(glob) = {}
    /\ cmd' = [NoCmd EXCEPT !.name = "import", !.glob = glob, !.pc = "end", !.ret = "1",
                            !.n = cmd.n + 1]
    /\ status' = "refused"
    /\ stack' = << >>
    /\ session' = [last |-> "import", retry |-> FALSE, produced |-> {}]
    /\ UNCHANGED <<version, TYPE_REGISTRY, store, ftp_ok, root, dry_run, runs, changes, calls,
                   visited, produceCalled, checkCalled, returned, failedAt, failStage, failPath,
                   twice, prevOkRoot, lastBump, rival, edit, built, scan>>

\* StatusCommand.run: a line for every record of imported_tables() whose type
\* is a matching table class; the records are only read, run returns None
StatusRun(glob) ==
    /\ status # "running"
    /\ cmd.n < MaxCmds
    /\ LET ok == \A r \in ledger : hd_formula_sha(r) = r.sha
       IN  /\ cmd' = [NoCmd EXCEPT !.name = "status", !.glob = glob, !.pc = "end",
                                   !.ledger = ledger, !.tables = DOMAIN tables,
                                   !.reported = {r \in ledger : r.type \in glob_datasets_tables(glob)},
                                   !.ret = IF ok THEN "None" ELSE "raised",
                                   !.n = cmd.n + 1]
           /\ status' = IF ok THEN "done" ELSE "failed"
    /\ stack' = << >>
    /\ session' = [last |-> "status", retry |-> FALSE, produced |-> {}]
    /\ UNCHANGED <<version, TYPE_REGISTRY, store, ftp_ok, root, dry_run, runs, changes, calls,
                   visited, produceCalled, checkCalled, returned, failedAt, failStage, failPath,
                   twice, prevOkRoot, lastBump, rival, edit, built, scan>>

\* the exit status of the process for the value App.run returns: None and 0
\* give 0, any other value and an exception that leaves run give 1
exit_code(ret) == IF ret = "None" THEN 0 ELSE 1

\* HistoricalDataset.drop: with MYSQL.cursor() as cursor: DROP TABLE IF EXISTS,
\* then DELETE FROM `system` WHERE name; one statement per step
HdDrop ==
    /\ status = "running"
    /\ cmd.pc \in {"drop_table", "drop_from_system"}
    /\ IF cmd.pc = "drop_table"
       THEN IF granted(cursor_default_user, "DROP")
            THEN /\ tables' = sql_drop_table(tables, cmd.cur[1].name)
                 /\ cmd' = [cmd EXCEPT !.pc = "drop_from_system"]
                 /\ UNCHANGED <<ledger, status>>
            ELSE CmdEnd("failed") /\ UNCHANGED <<ledger, tables>>
       ELSE IF granted(cursor_default_user, "DELETE")
            THEN /\ ledger' = sql_drop_from_system(ledger, cmd.cur[1].name)
                 /\ cmd' = [cmd EXCEPT !.pc = "next"]
                 /\ UNCHANGED <<tables, status>>
            ELSE CmdEnd("failed") /\ UNCHANGED <<ledger, tables>>
    /\ UNCHANGED cmdenv

\* the process of the running command is killed: no handler and no further
\* statement of it runs; what it executed so far stays
Crash ==
    /\ status = "running"
    /\ status' = "crashed"
    /\ stack' = << >>
    /\ failedAt' = IF stack # << >> THEN Top.type ELSE "none"
    /\ failStage' = "crash"
    /\ failPath' = stack
    /\ UNCHANGED <<version, TYPE_REGISTRY, store, ftp_ok, root, dry_run, runs, changes, calls,
                   visited, produceCalled, checkCalled, returned, twice, prevOkRoot, lastBump, aux,
                   session>>

\* import, prune and drop of imported tables, with changes of the code between
NextGC ==
    \/ \E r \in TableRoots, dry \in BOOLEAN : Start(r, dry)
    \/ Enter
    \/ LoopInputs
    \/ BeginProduce
    \/ Check
    \/ CreateTable
    \/ ImportTable
    \/ UpdateSystemTable
    \/ GetNrows
    \/ CleanupDropTable
    \/ CleanupDropFromSystem
    \/ \E t \in TableRoots : BumpVersion(t)
    \/ \E t \in TableRoots : Unregister(t)
    \/ \E g \in Globs \cup {NoGlob, NoMatchGlob}, dry \in BOOLEAN : PruneStart(g, dry)
    \/ PruneNext
    \/ \E g \in Globs, dry \in BOOLEAN : DropStart(g, dry)
    \/ DropNext
    \/ HdDrop
    \/ \E g \in {NoGlob, NoMatchGlob} : ImportNothing(g)
    \/ \E g \in {<<"", TRUE>>, NoMatchGlob} : StatusRun(g)

SpecGC == Init /\ [][NextGC]_vars

\* the same commands, followed up to the moment one of them is killed
NextCrash ==
    \/ status # "crashed" /\ NextGC
    \/ Crash

SpecCrash == Init /\ [][NextCrash]_vars

(***************************************************************************)
(* A second import process on another machine, working on the same         *)
(* database.  It is followed from the moment its produce_recursive finds   *)
(* an imported table missing whose inputs are all there, through           *)
(* ImportedTable.produce (db.py:32-52).                                    *)
(***************************************************************************)
\* settings.SGX_INSTANCE_ID of the second machine
RIVAL_INSTANCE_ID == "i2"

\* the row the second process inserts
rival_row(t) == [system_row(t) EXCEPT !.instance_id = RIVAL_INSTANCE_ID]

\* what a step of the second process leaves alone
rivalenv == <<version, TYPE_REGISTRY, files, s3, ftp_ok, status, stack, root, dry_run, runs,
              changes, calls, visited, produceCalled, checkCalled, returned, failedAt, failStage,
              failPath, twice, prevOkRoot, lastBump, cmd, edit, built, scan, session>>

RivalAt(pc) == rival.pc = pc

RivalGoto(pc) == rival' = [rival EXCEPT !.pc = pc]

\* if self.exists(): ... else: the inputs are found to exist, self.produce()
RivalEnter(t) ==
    /\ RivalAt("idle")
    /\ t \in TYPE_REGISTRY
    /\ \A d \in DepSet(t) : exists(d)
    /\ rival' = [pc |-> IF exists(t) THEN "done" ELSE "create_table", type |-> t, refused |-> FALSE]
    /\ UNCHANGED <<ledger, tables, rivalenv>>

RivalCreateTable ==
    /\ RivalAt("create_table")
    /\ \E ok \in BOOLEAN :
          IF ok /\ table_name(rival.type) \notin DOMAIN tables
          THEN tables' = With(tables, table_name(rival.type), 0) /\ RivalGoto("import_table")
          ELSE UNCHANGED tables /\ RivalGoto("cleanup_drop")
    /\ UNCHANGED <<ledger, rivalenv>>

RivalImportTable ==
    /\ RivalAt("import_table")
    /\ \E ok \in BOOLEAN :
          IF ok /\ table_name(rival.type) \in DOMAIN tables
          THEN /\ tables' = [tables EXCEPT ![table_name(rival.type)] = @ + 1]
               /\ RivalGoto(IF tables[table_name(rival.type)] + 1 >= NRows
                            THEN "update_system_table" ELSE "import_table")
          ELSE UNCHANGED tables /\ RivalGoto("cleanup_drop")
    /\ UNCHANGED <<ledger, rivalenv>>

RivalUpdateSystemTable ==
    /\ RivalAt("update_system_table")
    /\ \E ok \in BOOLEAN :
          IF ok /\ ~insert_refused(ledger, rival_row(rival.type))
          THEN /\ ledger' = ledger \cup {rival_row(rival.type)}
               /\ RivalGoto("get_nrows")
          ELSE /\ UNCHANGED ledger
               /\ rival' = [rival EXCEPT !.pc = "cleanup_drop",
                                         !.refused = insert_refused(ledger, rival_row(rival.type))]
    /\ UNCHANGED <<tables, rivalenv>>

RivalGetNrows ==
    /\ RivalAt("get_nrows")
    /\ \E ok \in BOOLEAN :
          IF ok /\ table_name(rival.type) \in DOMAIN tables THEN RivalGoto("done")
          ELSE RivalGoto("cleanup_drop")
    /\ UNCHANGED <<ledger, tables, rivalenv>>

RivalCleanupDropTable ==
    /\ RivalAt("cleanup_drop")
    /\ tables' = sql_drop_table(tables, table_name(rival.type))
    /\ RivalGoto("cleanup_delete")
    /\ UNCHANGED <<ledger, rivalenv>>

RivalCleanupDropFromSystem ==
    /\ RivalAt("cleanup_delete")
    /\ ledger' = sql_drop_from_system(ledger, table_name(rival.type))
    /\ RivalGoto("failed")
    /\ UNCHANGED <<tables, rivalenv>>

\* two import processes of imported tables on one database
NextRace ==
    \/ \E r \in TableRoots, dry \in BOOLEAN : Start(r, dry)
    \/ Enter
    \/ LoopInputs
    \/ BeginProduce
    \/ Check
    \/ CreateTable
    \/ ImportTable
    \/ UpdateSystemTable
    \/ GetNrows
    \/ CleanupDropTable
    \/ CleanupDropFromSystem
    \/ \E t \in TableRoots : RivalEnter(t)
    \/ RivalCreateTable
    \/ RivalImportTable
    \/ RivalUpdateSystemTable
    \/ RivalGetNrows
    \/ RivalCleanupDropTable
    \/ RivalCleanupDropFromSystem

SpecRace == Init /\ [][NextRace]_vars

(***************************************************************************)
(* Dataset.__init__ on edited code: the author changes the version of a    *)
(* class (possibly to none), reorders its depends list or replaces one of  *)
(* its dependencies, and an instance is constructed.  An instance belongs   *)
(* to the code it was constructed from: an edit starts a new interpreter.  *)
(***************************************************************************)
\* number of edits of the code explored
MaxEdits == 2

DepSetOf(dep, t) == {dep[t][k] : k \in 1..Len(dep[t])}

RECURSIVE closure_of(_, _)
\* the types of the instances cls() constructs with the depends lists dep
closure_of(dep, t) == {t} \cup UNION {closure_of(dep, d) : d \in DepSetOf(dep, t)}

Reverse(q) == [k \in 1..Len(q) |-> q[Len(q) + 1 - k]]

\* mutant: the instance is made without instantiating its dependencies
Dataset_init_no_inputs(dep, ver, t) ==
    LET f == [type |-> t, version |-> version_str(ver[t]), inputs |-> << >>]
    IN  [type |-> t, raised |-> FALSE, inputs |-> << >>, formula |-> f,
         formula_json |-> json_dumps(f), formula_sha |-> calculate_sha(json_dumps(f))]

RECURSIVE Dataset_init(_, _, _)
\* Dataset.__init__: inputs, formula, formula_json and formula_sha of cls()
Dataset_init(dep, ver, t) ==
    LET inputs == [k \in 1..Len(dep[t]) |-> <<dep[t][k], Dataset_init(dep, ver, dep[t][k])>>]
        f == [type    |-> t,
              version |-> version_str(ver[t]),
              inputs  |-> [k \in 1..Len(inputs) |-> <<inputs[k][1], inputs[k][2].formula>>]]
    IN  [type |-> t, raised |-> FALSE, inputs |-> inputs, formula |-> f,
         formula_json |-> json_dumps(f), formula_sha |-> calculate_sha(json_dumps(f))]

\* what an edit of the code leaves alone
editenv == <<version, TYPE_REGISTRY, store, ftp_ok, status, stack, root, dry_run, runs, changes,
             calls, visited, produceCalled, checkCalled, returned, failedAt, failStage, failPath,
             twice, prevOkRoot, lastBump, cmd, rival, scan, session>>

\* the version attribute of class t is set to v
EditVersion(t, v) ==
    /\ edit.n < MaxEdits
    /\ edit.version[t] # v
    /\ edit' = [edit EXCEPT !.version[t] = v, !.n = @ + 1]
    /\ built' = NoInstance
    /\ UNCHANGED editenv

\* the depends list of class t is written in the opposite order
EditOrder(t) ==
    /\ edit.n < MaxEdits
    /\ Len(edit.depends[t]) > 1
    /\ edit' = [edit EXCEPT !.depends[t] = Reverse(@), !.n = @ + 1]
    /\ built' = NoInstance
    /\ UNCHANGED editenv

\* the k-th dependency of class t is replaced by the class d without inputs
EditDependency(t, k, d) ==
    /\ edit.n < MaxEdits
    /\ k \in 1..Len(edit.depends[t])
    /\ is_root(d)
    /\ d \notin DepSetOf(edit.depends, t)
    /\ edit' = [edit EXCEPT !.depends[t][k] = d, !.n = @ + 1]
    /\ built' = NoInstance
    /\ UNCHANGED editenv

\* import_dataset_classes: the registry holds the classes with a version
registry_of(ver) == {t \in Types : ver[t] # 0}

\* ds = cls() for a class t the registry of the edited code resolves
Construct(t) ==
    /\ t \in registry_of(edit.version)
    /\ built' = Dataset_init(edit.depends, edit.version, t)
    /\ UNCHANGED <<edit, editenv>>

NextFormula ==
    \/ \E t \in Types, v \in 0..(MaxChanges + 1) : EditVersion(t, v)
    \/ \E t \in Types : EditOrder(t)
    \/ \E t \in Types, k \in 1..2, d \in Types : EditDependency(t, k, d)
    \/ \E t \in Types : Construct(t)

SpecFormula == Init /\ [][NextFormula]_vars

(***************************************************************************)
(* import_dataset_classes (registry.py:23-70): the Dataset classes found   *)
(* among the members of the modules of the package, taken in the order the *)
(* walk over the modules and inspect.getmembers yield them.                *)
(***************************************************************************)
\* number of class members the scanned modules hold
MaxMembers == 3

\* the class objects the modules can hold: id is the identity of the class
\* object, name its __name__, file the __file__ of the module that defines it
\* and version its version attribute (0 for none).  Classes 1 and 2 are two
\* declarations of the name A in two files, classes 1 and 3 two declarations
\* of it in one file (the earlier one is still a member under another
\* attribute name), class 5 is a base class without version.
Classes ==
    { [id |-> 1, name |-> "A", file |-> "m1.py", version |-> 1],
      [id |-> 2, name |-> "A", file |-> "m2.py", version |-> 1],
      [id |-> 3, name |-> "A", file |-> "m1.py", version |-> 2],
      [id |-> 4, name |-> "B", file |-> "m2.py", version |-> 1],
      [id |-> 5, name |-> "A", file |-> "m3.py", version |-> 0] }

\* the members the walk can yield: a class is yielded once for every module
\* whose symbol table holds it
MemberLists == UNION {[1..n -> Classes] : n \in 0..MaxMembers}

\* get_class_path: the file of the module that defines the class
get_class_path(cls) == cls.file

\* what building the registry leaves alone
scanenv == <<version, TYPE_REGISTRY, store, ftp_ok, status, stack, root, dry_run, runs, changes,
             calls, visited, produceCalled, checkCalled, returned, failedAt, failStage, failPath,
             twice, prevOkRoot, lastBump, cmd, rival, edit, built, session>>

\* import_dataset_classes is entered: classes = {}
ScanStart(ms) ==
    /\ scan.pc = "idle"
    /\ scan' = [pc |-> "scan", members |-> ms, classes |-> << >>, all |-> ms]
    /\ UNCHANGED scanenv

\* the body of the loop for the next member, or `return classes` after the last
ScanMember ==
    /\ scan.pc = "scan"
    /\ IF scan.members = << >> THEN scan' = [scan EXCEPT !.pc = "done"]
       ELSE LET cls == Head(scan.members)
            IN  IF cls.version = 0 THEN scan' = [scan EXCEPT !.members = Tail(@)]
                ELSE IF /\ cls.name \in DOMAIN scan.classes
                        /\ get_class_path(cls) # get_class_path(scan.classes[cls.name])
                     THEN scan' = [scan EXCEPT !.pc = "failed"]
                     ELSE scan' = [scan EXCEPT !.members = Tail(@),
                                               !.classes = With(@, cls.name, cls)]
    /\ UNCHANGED scanenv

NextRegistry ==
    \/ \E ms \in MemberLists : ScanStart(ms)
    \/ ScanMember

SpecRegistry == Init /\ [][NextRegistry]_vars

(***************************************************************************)
(* Properties.                                                             *)
(***************************************************************************)
\* the ledger rows that carry the signature of the current instance of t
RowsOf(t) == {r \in ledger : r.sha = formula_sha(t)}

\* this instance's production ran to completion: the table is created, all
\* rows are imported and the ledger row is inserted; or the file is whole
Complete(t) ==
    CASE Kind[t] = "ImportedTable" ->
            /\ table_name(t) \in DOMAIN tables
            /\ tables[table_name(t)] = NRows
            /\ RowsOf(t) # {}
      [] Kind[t] \in {"LocalFile", "S3MirroredLocalFile"} ->
            /\ path(t) \in DOMAIN files
            /\ files[path(t)] = "complete"
      [] OTHER -> TRUE

\* C1 (as stated): after produce_recursive ran twice in a row without failure
\* on any root, the ledger holds exactly one row with the root's signature and
\* the second run invoked produce() on no instance.
C1_IdempotenceAnyRoot ==
    (status = "done" /\ twice) =>
        /\ produceCalled = {}
        /\ Cardinality(RowsOf(root)) = 1

\* C1 (amended): after produce_recursive ran twice in a row without failure,
\* the second run invoked produce() on no instance, and the ledger holds
\* exactly one row with the root's signature when the root is an imported
\* table and none when it is a file (only ImportedTable.produce writes rows).
C1_Idempotence ==
    (status = "done" /\ twice) =>
        /\ produceCalled = {}
        /\ Cardinality(RowsOf(root)) = IF Kind[root] = "ImportedTable" THEN 1 ELSE 0

C1_Witness ==
    /\ status = "done"
    /\ twice
    /\ root = "Top"
    /\ visited = {"Top"}

\* C2: if produce() or check() raised for an instance, then afterwards exists()
\* is false for it, the ledger holds no row with its signature and no table
\* with its name remains.
C2_CleanupOnFailure ==
    (status = "failed" /\ failStage \in {"produce", "check"}) =>
        /\ ~exists(failedAt)
        /\ RowsOf(failedAt) = {}
        /\ Kind[failedAt] = "ImportedTable" => table_name(failedAt) \notin DOMAIN tables

\* C3: produce() of an instance begins only after the produce_recursive call
\* of each of its inputs has returned, the input then being there (it was seen
\* to exist or its own produce() completed).
C3_BottomUp ==
    \A p \in produceCalled : \A d \in DepSet(p) : d \in returned /\ exists(d)

C3_Witness ==
    /\ status = "done"
    /\ produceCalled = {"Leaf", "Mid", "Top"}

\* C4: when exists() is true for the instance produce_recursive is called on,
\* the call returns at once: no input is visited, no exists(), produce() or
\* check() of another instance is invoked, and ledger and storage are unchanged.
C4_ShortCircuit ==
    [][(Running /\ Top.pc = "enter" /\ ~exists_raises(Top.type) /\ exists(Top.type)) =>
          /\ stack' = Pop(stack)
          /\ returned' = returned \cup {Top.type}
          /\ visited' = visited \cup {Top.type}
          /\ UNCHANGED <<store, calls, produceCalled, checkCalled>>]_vars

\* the short cut was taken on a root one of whose inputs does not exist
C4_Witness ==
    /\ status = "done"
    /\ visited = {root}
    /\ returned = {root}
    /\ \E d \in DepSet(root) : ~exists(d)

\* C5: a dry run invokes no produce() and no check(), hands the flag down
\* unchanged to every recursive call and leaves ledger and storage unchanged.
C5_DryRun ==
    [][(status = "running" /\ dry_run) =>
          /\ UNCHANGED store
          /\ produceCalled' = {}
          /\ checkCalled' = {}
          /\ \A k \in 1..Len(stack') : stack'[k].dry_run]_vars

\* a dry run that went through the inputs of a root that does not exist
C5_Witness ==
    /\ status = "done"
    /\ dry_run
    /\ ~exists(root)
    /\ returned = {"Leaf", "Mid", "Top"}

\* C6: once the recursive build of an input has raised, the whole build has
\* failed: no call is left active, produce() was invoked on no caller up to
\* the root, and no caller went on to a later input.
C6_FailurePropagation ==
    failedAt # "none" =>
        /\ status = "failed"
        /\ stack = << >>
        /\ \A k \in 1..(Len(failPath) - 1) :
              LET a == failPath[k].type
              IN  /\ a \notin produceCalled
                  /\ a \notin returned
                  /\ \A j \in failPath[k].i..Len(depends[a]) : <<a, depends[a][j]>> \notin calls

\* an input two levels below the root raised and the root had an input left
C6_Witness ==
    /\ status = "failed"
    /\ Len(failPath) = 3
    /\ failPath[1].i <= Len(depends[root])

\* C7: after a build that failed at instance X, exists() is false for X and
\* for every instance on the path from X up to the root.
C7_NothingExistsAboveFailure ==
    status = "failed" => \A k \in 1..Len(failPath) : ~exists(failPath[k].type)

\* C8: in every reachable state, exists() being true for an instance implies
\* that its production ran to completion.
C8_NoPartialArtifactExists ==
    \A t \in Types : exists(t) => Complete(t)

\* C9: the signature recomputed from a ledger record is the stored one, and
\* is_latest() is true exactly when the record's type is registered and a
\* fresh instance of it has the stored signature; a record whose stored
\* formula differs anywhere from the current one is not latest.
C9_Staleness ==
    \A row \in ledger :
        /\ hd_formula_sha(row) = row.sha
        /\ is_latest(row) <=> (row.type \in TYPE_REGISTRY /\ formula_sha(row.type) = row.sha)
        /\ is_latest(row) <=> (row.type \in TYPE_REGISTRY /\ json_loads(row.formula) = formula(row.type))

\* a latest record beside a record that is stale only through an input's bump
C9_Witness ==
    \E r1, r2 \in ledger :
        /\ is_latest(r1)
        /\ ~is_latest(r2)
        /\ r2.type \in TYPE_REGISTRY
        /\ json_loads(r2.formula).version = ToString(version[r2.type])

\* C10: after a complete build of a root (a ledger row for every instance of
\* its closure), a bump of the version of one type M and a rebuild of the root
\* add one new row for M and for every type of the closure that depends on M
\* and for no other type, keep every earlier row as it was, and the earlier
\* latest rows of types that do not depend on M are still latest.
C10_RebuildAfterBump ==
    (/\ status = "done"
     /\ ~dry_run
     /\ lastBump.M # "none"
     /\ lastBump.runsAfter = 1
     /\ root \in lastBump.complete) =>
        LET new      == ledger \ lastBump.ledger
            affected == Closure(root) \cap Dependents(lastBump.M)
        IN  /\ lastBump.ledger \subseteq ledger
            /\ {r.type : r \in new} = affected
            /\ Cardinality(new) = Cardinality(affected)
            /\ \A r \in new : r.sha = formula_sha(r.type)
            /\ \A r \in lastBump.latest : r.type \notin Dependents(lastBump.M) => is_latest(r)

C10_Witness ==
    /\ status = "done"
    /\ ~dry_run
    /\ root = "Top"
    /\ lastBump.M = "Mid"
    /\ lastBump.runsAfter = 1
    /\ "Top" \in lastBump.complete
    /\ Cardinality(ledger) = 5

\* C11: when prune (no glob, not dry-run) has ended, every ledger record that
\* was classified not latest is deleted together with its table, and every
\* record that was classified latest is still there, unchanged, with its table.
C11_Prune ==
    (cmd.name = "prune" /\ cmd.glob = NoGlob /\ ~cmd.dry_run /\ cmd.pc = "end") =>
        \A r \in cmd.ledger :
            IF is_latest(r)
            THEN r \in ledger /\ (r.table_name \in cmd.tables => r.table_name \in DOMAIN tables)
            ELSE r \notin ledger /\ r.table_name \notin DOMAIN tables

\* the formula, serialization and signature of class t in the edited code
edited_formula(t) == formula_of(edit.depends, edit.version, t)
edited_json(t) == json_dumps(edited_formula(t))
edited_sha(t) == calculate_sha(edited_json(t))

\* the classes whose version or whose set of dependencies was edited
Changed ==
    {t \in Types : edit.version[t] # version[t] \/ DepSetOf(edit.depends, t) # DepSet(t)}

\* the classes whose depends list names the same classes in another order
Reordered ==
    {t \in Types : DepSetOf(edit.depends, t) = DepSet(t) /\ edit.depends[t] # depends[t]}

\* C12: changing the version of a type or replacing one of its dependencies
\* changes the signature of that type's instances and of every instance that
\* transitively depends on it, and of no other instance.
C12_SignatureSensitivity ==
    Reordered = {} =>
        \A t \in Types :
            (edited_sha(t) # formula_sha(t)) <=> (closure_of(edit.depends, t) \cap Changed # {})

\* a version and a dependency were changed, below some types and not below others
C12_Witness ==
    /\ Reordered = {}
    /\ built # NoInstance
    /\ built.type = "Full"
    /\ edit.version["Src"] # version["Src"]
    /\ DepSetOf(edit.depends, "Mid") # DepSet("Mid")
    /\ built.formula_sha # formula_sha("Full")
    /\ edited_sha("MFile") = formula_sha("MFile")

C14_OrderIndependence ==
    \A t \in Types :
        (/\ edit.version[t] = version[t]
         /\ DepSetOf(edit.depends, t) = DepSet(t)
         /\ \A d \in DepSet(t) : edited_formula(d) = formula(d)) =>
            /\ edited_json(t) = formula_json(t)
            /\ edited_sha(t) = formula_sha(t)

\* C15: under any interleaving of two build processes that both found the
\* same instance missing and both attempt its production, the ledger never
\* holds two rows with the same signature.
C15_NoDoubleRegistration ==
    \A r1, r2 \in ledger : r1.sha = r2.sha => r1 = r2

\* both processes went into produce() of the same instance, one registered it
\* and the INSERT of the other was refused
C15_Witness ==
    /\ rival.refused
    /\ rival.type \in produceCalled
    /\ \E r \in ledger : r.sha = formula_sha(rival.type) /\ r.instance_id = SGX_INSTANCE_ID

\* the steps of ImportedTable.produce, its handler included
ProduceSteps ==
    {"create_table", "import_table", "update_system_table", "get_nrows", "cleanup_drop",
     "cleanup_delete"}

\* C16: if the process is killed at any step of an imported table's produce(),
\* the persisted state has either both the table and its ledger row or neither.
C16_AtomicCreation ==
    (/\ status = "crashed"
     /\ failPath # << >>
     /\ failPath[Len(failPath)].pc \in ProduceSteps) =>
        LET n == table_name(failedAt)
        IN  (n \in DOMAIN tables) <=> (\E r \in ledger : r.table_name = n)

\* C17: when `drop <glob>` (not dry-run) has ended, for every ledger record
\* whose name matches the glob the row and the table of that name are gone,
\* and every record whose name does not match is unchanged, with its table.
C17_Drop ==
    (cmd.name = "drop" /\ ~cmd.dry_run /\ cmd.pc = "end") =>
        \A r \in cmd.ledger :
            IF fnmatch_name(r.name, cmd.glob)
            THEN r \notin ledger /\ r.table_name \notin DOMAIN tables
            ELSE r \in ledger /\ (r.table_name \in cmd.tables => r.table_name \in DOMAIN tables)

RECURSIVE well_formed(_, _)
\* the inputs of inst are instances of the classes its class declares, under
\* their names, each well formed itself, and inst.formula maps the same keys
\* to the formulas of the inputs
well_formed(inst, dep) ==
    LET declared == dep[inst.type]
    IN  /\ Len(inst.inputs) = Len(declared)
        /\ {inst.inputs[k][1] : k \in 1..Len(inst.inputs)} = DepSetOf(dep, inst.type)
        /\ Len(inst.formula.inputs) = Len(declared)
        /\ \A k \in 1..Len(declared) :
              /\ inst.inputs[k][1] = declared[k]
              /\ inst.inputs[k][2].type = declared[k]
              /\ well_formed(inst.inputs[k][2], dep)
              /\ inst.formula.inputs[k][1] = declared[k]
              /\ inst.formula.inputs[k][2] = inst.inputs[k][2].formula

\* C19: for every constructed instance the keys of inputs are exactly the
\* names of the dependency types its type declares, each value is an instance
\* of that type, the same holds for every input, and the formula's inputs
\* have the same keys, mapped to the inputs' formulas.
C19_ConstructionInvariant ==
    built # NoInstance => well_formed(built, edit.depends)

\* an instance with inputs on two levels, built after a dependency was replaced
C19_Witness ==
    /\ built # NoInstance
    /\ built.type = "Full"
    /\ Len(built.inputs) = 2
    /\ edit.depends["MFile"] # depends["MFile"]
    /\ edit.depends["Full"] = Reverse(depends["Full"])

\* C20: constructing an instance of a type whose version is missing, or of a
\* type with such a type among its transitive dependencies, fails instead of
\* yielding an instance with a formula and a signature.
C20_FailFast ==
    (/\ built # NoInstance
     /\ \E u \in closure_of(edit.depends, built.type) : edit.version[u] = 0) =>
        built.raised

\* the registered kind of members: the classes of the list that have a version
versioned(ms) == {ms[k] : k \in 1..Len(ms)} \ {c \in Classes : c.version = 0}

\* two different declarations among them share a name
Conflict(ms) == \E a, b \in versioned(ms) : a.name = b.name /\ a.id # b.id

\* C21: building the type registry fails whenever two different declarations
\* share a type name (it never returns a registry in which one of them has
\* replaced the other), and it fails only then: the same declaration seen
\* through several modules is accepted.
C21_RegistryNameUniqueness ==
    /\ scan.pc = "done" => ~Conflict(scan.all)
    /\ scan.pc = "failed" => Conflict(scan.all)

\* a command has ended
Ended == status \in {"done", "failed", "refused"}

\* the last command was an import that found classes to build
ImportBuilt == session.last = "import" /\ status # "refused"

\* what App.run returned (or that an exception left it) for the last command
App_run ==
    IF ImportBuilt THEN (IF status = "done" THEN "None" ELSE "raised") ELSE cmd.ret

\* the pattern the last command was given
LastGlob == IF ImportBuilt THEN <<root, FALSE>> ELSE cmd.glob

\* C22: a command that has ended returned exit code 0 if it succeeded, and a
\* non-zero code if the glob it was given matches no declared type (import,
\* prune and status alike) or if a BiodbError was raised.
C22_ExitCode ==
    Ended =>
        /\ (status = "done" /\ (LastGlob = NoGlob \/ glob_datasets(LastGlob) # {})) =>
              exit_code(App_run) = 0
        /\ (/\ session.last \in {"import", "prune", "status"}
            /\ LastGlob # NoGlob
            /\ glob_datasets(LastGlob) = {}) => exit_code(App_run) # 0
        /\ (session.last = "import" /\ status = "refused" /\ cmd.glob = NoGlob) =>
              exit_code(App_run) # 0

\* C23: the names of two dataset instances (their table names as well), live
\* or read back from the ledger, are equal if and only if their signatures
\* are equal; so no two ledger rows share a name, and a deletion by name
\* removes the one row of that signature and no other.
C23_NameUniqueness ==
    \A live \in {{[name |-> name(t), sha |-> formula_sha(t)] : t \in Types}} :
        /\ \A a, b \in live : (a.name = b.name) <=> (a.sha = b.sha)
        /\ \A r \in ledger :
              /\ r.table_name = r.name
              /\ \A a \in live : (r.name = a.name) <=> (r.sha = a.sha)
              /\ \A q \in ledger : (r.name = q.name) <=> (r.sha = q.sha)
              /\ ledger \ sql_drop_from_system(ledger, r.name) = {r}

\* two records of one type with the same root versions, told apart by the
\* signature alone
C23_Witness ==
    \E r, q \in ledger :
        /\ r # q
        /\ r.type = q.type
        /\ r.name[2] = q.name[2]

\* C24: across import, drop, prune and status, no field of an existing ledger
\* row ever changes; a row is inserted only by the production of its own
\* instance, and is removed only by drop or prune dropping that record or by
\* the failure cleanup of the instance with that signature.
C24_LedgerRowsImmutable ==
    [][/\ \A r \in ledger, q \in ledger' : r.sha = q.sha => r = q
       /\ \A r \in ledger' \ ledger :
             /\ Running
             /\ Top.pc = "update_system_table"
             /\ r = system_row(Top.type)
       /\ \A r \in ledger \ ledger' :
             \/ /\ status = "running"
                /\ stack = << >>
                /\ cmd.name \in {"drop", "prune"}
                /\ cmd.pc = "drop_from_system"
                /\ cmd.cur = <<r>>
             \/ /\ Running
                /\ Top.pc = "cleanup_delete"
                /\ r.sha = formula_sha(Top.type)]_vars

\* the failure cleanup is about to delete the row its own produce() inserted,
\* beside an older row of the same type
C24_Witness ==
    /\ Running
    /\ Top.pc = "cleanup_delete"
    /\ RowsOf(Top.type) # {}
    /\ \E q \in ledger : q.type = Top.type /\ q.sha # formula_sha(Top.type)

RECURSIVE same_tree(_, _)
\* the historical dataset hd has the type, version and signature of the live
\* instance d, and the same input keys with sub-datasets that match in turn
same_tree(hd, d) ==
    /\ hd.type = d.type
    /\ hd.version = d.formula.version
    /\ hd.formula_sha = d.formula_sha
    /\ Len(hd.inputs) = Len(d.inputs)
    /\ \A k \in 1..Len(d.inputs) :
          /\ hd.inputs[k][1] = d.inputs[k][1]
          /\ same_tree(hd.inputs[k][2], d.inputs[k][2])

C26_SharedProducedOnce ==
    [][(Running /\ ~Top.dry_run) =>
          /\ Top.pc = "produce" => Top.type \notin produceCalled
          /\ (Top.pc = "enter" /\ Top.type \in visited) =>
                /\ exists(Top.type)
                /\ stack' = Pop(stack)
                /\ produceCalled' = produceCalled]_vars

\* a successful build of the diamond: Leaf was reached through Mid and through
\* Top, and produced
C26_Witness ==
    /\ status = "done"
    /\ ~dry_run
    /\ {<<"Mid", "Leaf">>, <<"Top", "Leaf">>} \subseteq calls
    /\ {"Leaf", "Top"} \subseteq produceCalled

\* C27: when produce_recursive(root) is run again after a failed build,
\* produce() is invoked only on instances whose exists() was false when they
\* were visited (a visit that finds exists() true returns without producing),
\* every instance the failed run had produced is skipped, and a retry in which
\* no step fails ends with exists(root) true.
C27_RetryAfterFailure ==
    /\ [](session.retry => produceCalled \cap session.produced = {})
    /\ []((session.retry /\ status = "done" /\ ~dry_run) => exists(root))
    /\ [][(session.retry /\ Running) =>
             /\ (Top.pc = "enter" /\ ~exists_raises(Top.type) /\ exists(Top.type)) =>
                   /\ stack' = Pop(stack)
                   /\ produceCalled' = produceCalled
             /\ \A t \in produceCalled' \ produceCalled : Top.type = t /\ Top.pc = "produce"
             /\ (/\ Top.pc = "enter"
                 /\ Len(stack') >= Len(stack)
                 /\ stack'[Len(stack)].pc # "enter") => ~exists(Top.type)]_vars

\* the retry skipped what the failed run had produced, produced the rest and
\* ended with the root there
C27_Witness ==
    /\ session.retry
    /\ status = "done"
    /\ ~dry_run
    /\ root = "Top"
    /\ "Leaf" \in session.produced
    /\ produceCalled = {"Mid", "Top"}

\* C28: with two processes building the same imported table, once produce()
\* of one process has returned for an instance, its ledger row and its table
\* stay there whatever the other process does, its failure cleanup included.
C28_FinishedArtifactSurvives ==
    \A t \in produceCalled \cap returned :
        exists(t) /\ table_name(t) \in DOMAIN tables

\* C29: during and after `prune <glob>`, every ledger record whose type is not
\* the name of a currently registered type matching the glob is untouched: it
\* is not selected, not reported, and its row and its table are still there;
\* so it is with a record whose type is no longer registered, although
\* is_latest() is false for it.
C29_PruneGlobFrame ==
    (session.last = "prune" /\ cmd.glob # NoGlob /\ status # "idle") =>
        \A r \in cmd.ledger :
            ~(r.type \in TYPE_REGISTRY /\ fnmatch_class(r.type, cmd.glob)) =>
                /\ r \in ledger
                /\ r.table_name \in cmd.tables => r.table_name \in DOMAIN tables
                /\ r \notin cmd.reported
                /\ cmd.cur # <<r>>

\* `prune '*'` went past a record of a type that is no longer registered
C29_Witness ==
    /\ session.last = "prune"
    /\ cmd.glob = <<"", TRUE>>
    /\ ~cmd.dry_run
    /\ status = "done"
    /\ \E r \in cmd.ledger : r.type \notin TYPE_REGISTRY /\ ~is_latest(r)

\* the records the last prune or drop command selects from the ledger it read
Selected ==
    {r \in cmd.ledger : IF cmd.name = "prune" THEN prune_selects(r) ELSE drop_selects(r)}

\* C30: when `drop <glob> --dry-run` or `prune [glob] --dry-run` has ended, no
\* ledger row is deleted and no table dropped, and the records it reported
\* are exactly those the same command without --dry-run deletes from the
\* same state.
C30_DryRunDeletion ==
    (session.last \in {"prune", "drop"} /\ cmd.pc = "end" /\ status # "idle") =>
        IF cmd.dry_run
        THEN /\ ledger = cmd.ledger
             /\ DOMAIN tables = cmd.tables
             /\ cmd.reported = Selected
        ELSE /\ cmd.ledger \ ledger = Selected
             /\ cmd.tables \ DOMAIN tables = {r.table_name : r \in Selected} \cap cmd.tables

====
